---- MODULE Spec2Model ----
(***************************************************************************)
(* Crystal MCP server (src/src/validate-server.ts, class CrystalMCPServer): *)
(* the artifact store (export_crystal, import_crystal, list_crystals) and   *)
(* the smart filename matching behind import_crystal_spec / import_codex.   *)
(*                                                                         *)
(* Strings are sequences of one-character strings, so that substring,      *)
(* split, replace and path resolution are computed as the code computes    *)
(* them.  Scores are kept in tenths (1.0 = 10, 0.7 = 7, 0.8 = 8, 0.5 = 5)   *)
(* together with the divisor; IEEE rounding of the sums is not modelled.   *)
(***************************************************************************)
EXTENDS Integers, Sequences, FiniteSets, TLC

VARIABLES
  dirExists,   \* public/crystals exists on disk
  dir,         \* its entries in readdir order: [name, text]
  procs,       \* the tool invocations in flight, per slot; io: the paths
               \* the invocation's latest step read or wrote
  last,        \* the invocation that returned most recently, with its result
  calls,       \* number of invocations started so far
  nextId,      \* number of ids nanoid() has handed out
  detected,    \* what the context scan behind auto-detection yields
  exported,    \* history: the successful export results, [id, content]
  cleanLists,  \* history: listings returned since the last step of an export
  mq,          \* MatchEngine run: the query
  mfiles,      \* MatchEngine run: the candidate file names
  mclass,      \* MatchEngine run: "spec" or "codex"
  mres         \* MatchEngine run: the result, or NoResult before the call

vars == <<dirExists, dir, procs, last, calls, nextId, detected, exported, cleanLists,
          mq, mfiles, mclass, mres>>

storeVars == <<dirExists, dir, procs, last, calls, nextId, detected, exported, cleanLists>>
matchVars == <<mq, mfiles, mclass, mres>>

----------------------------------------------------------------------------
(* Bounds *)

MaxCalls == 3
MaxQueryWords == 2
MaxCandidates == 2

----------------------------------------------------------------------------
(* Strings as character sequences *)

Undefined == <<"undefined">>

\* JavaScript truthiness of an optional string: undefined and "" are falsy
Truthy(s) == s # Undefined /\ s # <<>>

\* a || b on optional strings
OrElse(a, b) == IF Truthy(a) THEN a ELSE b

Upper == <<"A","B","C","D","E","F","G","H","I","J","K","L","M",
           "N","O","P","Q","R","S","T","U","V","W","X","Y","Z">>
Lower == <<"a","b","c","d","e","f","g","h","i","j","k","l","m",
           "n","o","p","q","r","s","t","u","v","w","x","y","z">>

Digits == {"0","1","2","3","4","5","6","7","8","9"}
Whitespace == {" ", "\t"}
Separators == {"_", ".", "-"}

ToLowerChar(c) ==
  IF \E i \in 1..26 : Upper[i] = c
  THEN Lower[CHOOSE i \in 1..26 : Upper[i] = c]
  ELSE c

ToLowerCase(s) == [i \in 1..Len(s) |-> ToLowerChar(s[i])]

\* s.startsWith(p)
StartsWith(s, p) == Len(p) <= Len(s) /\ SubSeq(s, 1, Len(p)) = p

\* s.endsWith(p)
EndsWith(s, p) == Len(p) <= Len(s) /\ SubSeq(s, Len(s) - Len(p) + 1, Len(s)) = p

\* s.indexOf(p) + 1, 0 when p does not occur
IndexOf(s, p) ==
  LET hits == {i \in 1..(Len(s) - Len(p) + 1) : SubSeq(s, i, i + Len(p) - 1) = p}
  IN IF hits = {} THEN 0 ELSE CHOOSE i \in hits : \A j \in hits : i <= j

\* s.includes(p); every string includes ""
Includes(s, p) == \E i \in 1..(Len(s) - Len(p) + 1) : SubSeq(s, i, i + Len(p) - 1) = p

\* s.replace(p, r) with a string pattern: the first occurrence only
ReplaceFirst(s, p, r) ==
  LET i == IndexOf(s, p)
  IN IF i = 0 THEN s
     ELSE SubSeq(s, 1, i - 1) \o r \o SubSeq(s, i + Len(p), Len(s))

\* s.replace(/[...]/g, ' '): every character of the class becomes a space
ReplaceClass(s, class) == [i \in 1..Len(s) |-> IF s[i] \in class THEN " " ELSE s[i]]

RECURSIVE TrimStart(_)
TrimStart(s) ==
  IF s # <<>> /\ Head(s) \in Whitespace THEN TrimStart(Tail(s)) ELSE s

RECURSIVE TrimEnd(_)
TrimEnd(s) ==
  IF s # <<>> /\ s[Len(s)] \in Whitespace THEN TrimEnd(SubSeq(s, 1, Len(s) - 1)) ELSE s

\* s.trim()
Trim(s) == TrimEnd(TrimStart(s))

\* split at every single character of the class (empty pieces kept)
RECURSIVE SplitEach(_, _, _)
SplitEach(s, class, cur) ==
  IF s = <<>> THEN <<cur>>
  ELSE IF Head(s) \in class THEN <<cur>> \o SplitEach(Tail(s), class, <<>>)
  ELSE SplitEach(Tail(s), class, Append(cur, Head(s)))

RECURSIVE SelectIdx(_, _, _)
SelectIdx(seq, keep, i) ==
  IF i > Len(seq) THEN <<>>
  ELSE (IF i \in keep THEN <<seq[i]>> ELSE <<>>) \o SelectIdx(seq, keep, i + 1)

\* a split that yields no empty piece
SplitWhitespaceNoEmpty(s) ==
  LET P == SplitEach(s, Whitespace, <<>>)
  IN SelectIdx(P, {i \in 1..Len(P) : P[i] # <<>>}, 1)

\* s.split(/\s+/): pieces between maximal runs of whitespace; a run at the
\* start or at the end of s leaves one empty piece there, and "" gives [""]
SplitWhitespace(s) ==
  LET P == SplitEach(s, Whitespace, <<>>)
      keep == {i \in 1..Len(P) : i = 1 \/ i = Len(P) \/ P[i] # <<>>}
  IN SelectIdx(P, keep, 1)

\* s.split(/[_.-]/) or s.split("/"): at every single separator
SplitOn(s, class) == SplitEach(s, class, <<>>)

RECURSIVE Join(_, _)
Join(parts, sep) ==
  IF parts = <<>> THEN <<>>
  ELSE IF Len(parts) = 1 THEN parts[1]
  ELSE parts[1] \o sep \o Join(Tail(parts), sep)

----------------------------------------------------------------------------
(* Paths (POSIX), as node's path.resolve and path.join compute them *)

Slash == <<"/">>

RECURSIVE NormalizeSegs(_, _)
NormalizeSegs(segs, acc) ==
  IF segs = <<>> THEN acc
  ELSE LET h == Head(segs)
       IN IF h = <<>> \/ h = <<".">> THEN NormalizeSegs(Tail(segs), acc)
          ELSE IF h = <<".", ".">>
               THEN NormalizeSegs(Tail(segs),
                                  IF acc = <<>> THEN acc ELSE SubSeq(acc, 1, Len(acc) - 1))
          ELSE NormalizeSegs(Tail(segs), Append(acc, h))

\* an absolute path with "." and ".." resolved and no trailing slash
NormalizeAbs(p) == Slash \o Join(NormalizeSegs(SplitOn(p, {"/"}), <<>>), Slash)

\* path.resolve(base, input), base absolute
Resolve(base, input) ==
  IF StartsWith(input, Slash) THEN NormalizeAbs(input)
  ELSE NormalizeAbs(base \o Slash \o input)

\* path.join(base, name), base absolute: name never replaces base
PathJoin(base, name) == NormalizeAbs(base \o Slash \o name)

\* const projectRoot = resolve(__dirname, "..")
projectRoot == <<"/","s","r","v","/","a","p","p">>

PathOutsideRoot == <<"<Path is outside project root>">>

\* getSafePath: the resolved path, or the thrown error
getSafePath(inputPath) ==
  LET resolvedPath == Resolve(projectRoot, inputPath)
  IN IF ~StartsWith(resolvedPath, projectRoot) THEN PathOutsideRoot ELSE resolvedPath

\* the claim's notion of containment: the root itself or a path below it
InsideRoot(p) == p = projectRoot \/ StartsWith(p, projectRoot \o Slash)

PublicCrystals == <<"p","u","b","l","i","c","/","c","r","y","s","t","a","l","s">>
PublicProtocols == <<"p","u","b","l","i","c","/","p","r","o","t","o","c","o","l","s">>
PublicCodex == <<"p","u","b","l","i","c","/","c","o","d","e","x">>

DotCrystal == <<".","c","r","y","s","t","a","l">>
DotCp == <<".","c","p">>
DotCx == <<".","c","x">>

----------------------------------------------------------------------------
(* Crystal records and their file text *)

\* JSON text of a string value (the model's strings need no escaping)
Backslash == "\\"
DoubleQuote == "\""

\* a serializer that writes the characters as they are
EscapeVerbatim(s) == s

\* the characters of s as JSON.stringify writes them inside a string literal
RECURSIVE Escape(_)
Escape(s) ==
  IF s = <<>> THEN <<>>
  ELSE (IF Head(s) \in {Backslash, DoubleQuote} THEN <<Backslash, Head(s)>> ELSE <<Head(s)>>)
       \o Escape(Tail(s))

\* the body of a string literal JSON.parse accepts: no bare quote, and every
\* backslash starts an escape
RECURSIVE ValidBody(_)
ValidBody(b) ==
  IF b = <<>> THEN TRUE
  ELSE IF Head(b) = Backslash
  THEN Len(b) >= 2 /\ b[2] \in {Backslash, DoubleQuote} /\ ValidBody(Tail(Tail(b)))
  ELSE Head(b) # DoubleQuote /\ ValidBody(Tail(b))

RECURSIVE Unescape(_)
Unescape(b) ==
  IF b = <<>> THEN <<>>
  ELSE IF Head(b) = Backslash THEN <<b[2]>> \o Unescape(Tail(Tail(b)))
  ELSE <<Head(b)>> \o Unescape(Tail(b))

Quote(s) == <<DoubleQuote>> \o Escape(s) \o <<DoubleQuote>>

IsLiteral(t) ==
  /\ Len(t) >= 2
  /\ t[1] = DoubleQuote
  /\ t[Len(t)] = DoubleQuote
  /\ ValidBody(SubSeq(t, 2, Len(t) - 1))

Unquote(t) == Unescape(SubSeq(t, 2, Len(t) - 1))

JsonTrue == <<"t","r","u","e">>
JsonFalse == <<"f","a","l","s","e">>

JsonBool(b) == IF b THEN JsonTrue ELSE JsonFalse

LBrace == [k |-> "{", v |-> <<>>]
RBrace == [k |-> "}", v |-> <<>>]

\* JSON.stringify(crystalData, null, 2): the members in insertion order
Stringify(d) ==
  << LBrace,
     [k |-> "id", v |-> Quote(d.id)],
     [k |-> "title", v |-> Quote(d.title)],
     [k |-> "spec_version", v |-> Quote(d.spec_version)],
     [k |-> "created_at", v |-> Quote(d.created_at)],
     [k |-> "auto_detected", v |-> JsonBool(d.auto_detected)],
     [k |-> "content", v |-> Quote(d.content)],
     RBrace >>

\* crystalContent.length of the pretty-printed text: "{\n", the members as
\* two spaces, quoted key, ": ", value, joined by ",\n", then "\n}"
RECURSIVE MembersLength(_)
MembersLength(ms) ==
  IF ms = <<>> THEN 0
  ELSE 2 + (Len(Head(ms).k) + 2) + 2 + Len(Head(ms).v)
       + (IF Len(ms) > 1 THEN 2 ELSE 0) + MembersLength(Tail(ms))

\* length in characters of a complete text; a truncated text is never measured
TextLength(text) == 2 + MembersLength(SubSeq(text, 2, Len(text) - 1)) + 2

\* JSON.parse succeeds on a complete object text only
Parses(text) ==
  /\ Len(text) >= 2
  /\ text[1] = LBrace
  /\ text[Len(text)] = RBrace
  /\ \A i \in 2..(Len(text) - 1) :
       text[i].v \in {JsonTrue, JsonFalse} \/ IsLiteral(text[i].v)

Member(text, key) ==
  LET hits == {i \in 2..(Len(text) - 1) : text[i].k = key}
  IN IF hits = {} THEN Undefined ELSE text[CHOOSE i \in hits : TRUE].v

\* JSON.parse(text) of a text that parses; a missing member reads as undefined
JsonParse(text) ==
  LET str(key) == IF Member(text, key) = Undefined THEN Undefined
                  ELSE Unquote(Member(text, key))
  IN [id |-> str("id"),
      title |-> str("title"),
      spec_version |-> str("spec_version"),
      created_at |-> str("created_at"),
      auto_detected |-> Member(text, "auto_detected") = JsonTrue,
      content |-> str("content")]

----------------------------------------------------------------------------
(* MatchEngine: findBestProtocolMatch / findBestCodexMatch *)

None == <<"null">>

\* const versionRegex = /\d+\.?\d*/g : the end of the match that starts at the
\* digit s[i] (digits, an optional ".", digits; greedy)
RECURSIVE DigitsEnd(_, _)
DigitsEnd(s, i) ==
  IF i + 1 <= Len(s) /\ s[i + 1] \in Digits THEN DigitsEnd(s, i + 1) ELSE i

VersionEnd(s, i) ==
  LET e == DigitsEnd(s, i)
  IN IF e + 1 <= Len(s) /\ s[e + 1] = "."
     THEN (IF e + 2 <= Len(s) /\ s[e + 2] \in Digits THEN DigitsEnd(s, e + 2) ELSE e + 1)
     ELSE e

\* the leftmost match at or after position from (1-based); to = 0 when none
VersionExec(s, from) ==
  LET starts == {i \in from..Len(s) : s[i] \in Digits}
  IN IF starts = {} THEN [at |-> 0, to |-> 0]
     ELSE LET i == CHOOSE i \in starts : \A j \in starts : i <= j
          IN [at |-> i, to |-> VersionEnd(s, i)]

\* queryWords.filter(word => versionRegex.test(word)): test on a global regex
\* searches from lastIndex, leaves lastIndex at the end of the match, and
\* resets it to 0 on failure; the regex object is shared by the whole filter
RECURSIVE FilterVersionTest(_, _)
FilterVersionTest(words, lastIndex) ==
  IF words = <<>> THEN <<>>
  ELSE LET w == Head(words)
           m == IF lastIndex > Len(w) THEN [at |-> 0, to |-> 0]
                ELSE VersionExec(w, lastIndex + 1)
       IN IF m.at # 0 THEN <<w>> \o FilterVersionTest(Tail(words), m.to)
          ELSE FilterVersionTest(Tail(words), 0)

\* filename.match(versionRegex) || [] : every match, left to right
RECURSIVE VersionMatchAll(_, _)
VersionMatchAll(s, from) ==
  LET m == VersionExec(s, from)
  IN IF m.at = 0 THEN <<>>
     ELSE <<SubSeq(s, m.at, m.to)>> \o VersionMatchAll(s, m.to + 1)

RECURSIVE SumSeq(_)
SumSeq(q) == IF q = <<>> THEN 0 ELSE Head(q) + SumSeq(Tail(q))

\* a scoring that takes two words of the same length for a partial match
WordPairScoreByLength(queryWord, filenameWord) ==
  IF filenameWord = queryWord THEN 10
  ELSE IF Includes(filenameWord, queryWord) \/ Includes(queryWord, filenameWord)
          \/ Len(filenameWord) = Len(queryWord)
       THEN 7 ELSE 0

\* the contribution of one (queryWord, filenameWord) pair, in tenths
WordPairScore(queryWord, filenameWord) ==
  IF Includes(filenameWord, queryWord) \/ Includes(queryWord, filenameWord)
  THEN (IF filenameWord = queryWord THEN 10
        ELSE IF Includes(filenameWord, queryWord) \/ Includes(queryWord, filenameWord)
             THEN 7 ELSE 0)
  ELSE 0

\* a term score that counts, for each query word, its best pair only
WordScoreCapped(queryWords, filenameWords) ==
  SumSeq([i \in 1..Len(queryWords) |->
            LET pairs == {WordPairScore(queryWords[i], filenameWords[j]) :
                            j \in 1..Len(filenameWords)}
            IN IF pairs = {} THEN 0 ELSE CHOOSE s \in pairs : \A t \in pairs : t <= s])

WordScore(queryWords, filenameWords) ==
  SumSeq([i \in 1..Len(queryWords) |->
            SumSeq([j \in 1..Len(filenameWords) |->
                      WordPairScore(queryWords[i], filenameWords[j])])])

VersionScore(queryWords, filename) ==
  LET queryVersions == FilterVersionTest(queryWords, 0)
      filenameVersions == VersionMatchAll(filename, 1)
  IN SumSeq([i \in 1..Len(queryVersions) |->
               SumSeq([j \in 1..Len(filenameVersions) |->
                         IF queryVersions[i] = filenameVersions[j] THEN 8 ELSE 0])])

codexTerms ==
  << <<"m","e","c","h","a","n","i","s","m">>,
     <<"a","w","a","r","e","n","e","s","s">>,
     <<"a","g","e","n","t">>,
     <<"t","r","a","n","s","m","i","s","s","i","o","n">>,
     <<"p","r","o","t","o","c","o","l">>,
     <<"p","r","o","b","a","b","i","l","i","t","y">>,
     <<"p","a","t","t","e","r","n">> >>

\* a bonus that is given once, however many terms match
CodexTermScoreOnce(queryWords, filename) ==
  IF \E t \in 1..Len(codexTerms) :
       /\ \E i \in 1..Len(queryWords) : queryWords[i] = codexTerms[t]
       /\ Includes(filename, codexTerms[t])
  THEN 5 ELSE 0

CodexTermScore(queryWords, filename) ==
  SumSeq([t \in 1..Len(codexTerms) |->
            IF (\E i \in 1..Len(queryWords) : queryWords[i] = codexTerms[t])
               /\ Includes(filename, codexTerms[t])
            THEN 5 ELSE 0])

\* a score is sum / (10 * n): the sum in tenths and the number of query words
ScoreOf(sum, queryWords) ==
  IF Len(queryWords) > 0 THEN [sum |-> sum, n |-> Len(queryWords)]
  ELSE [sum |-> 0, n |-> 1]

calculateProtocolMatchScore(queryWords, filename) ==
  LET filenameWords == SplitWhitespace(filename)
  IN ScoreOf(WordScore(queryWords, filenameWords) + VersionScore(queryWords, filename),
             queryWords)

calculateCodexMatchScore(queryWords, filename) ==
  LET filenameWords == SplitWhitespace(filename)
  IN ScoreOf(WordScore(queryWords, filenameWords) + VersionScore(queryWords, filename)
               + CodexTermScore(queryWords, filename),
             queryWords)

ZeroScore == [sum |-> 0, n |-> 1]

\* a.score < b.score, == and >= 0.3 on exact quotients
ScoreLess(a, b) == a.sum * b.n < b.sum * a.n
ScoreEq(a, b) == a.sum * b.n = b.sum * a.n

\* a threshold that a score of exactly 0.3 misses
MeetsThresholdStrict(score) == score.sum > 3 * score.n

\* a threshold of 3 in place of 0.3
MeetsThresholdTenfold(score) == score.sum >= 30 * score.n

\* bestMatch.score >= threshold, threshold = 0.3
MeetsThreshold(score) == score.sum >= 3 * score.n

\* a sort that puts the later of two equal scores first
RECURSIVE InsertByScoreUnstable(_, _)
InsertByScoreUnstable(sorted, x) ==
  IF sorted = <<>> THEN <<x>>
  ELSE IF ~ScoreLess(x.score, Head(sorted).score) THEN <<x>> \o sorted
  ELSE <<Head(sorted)>> \o InsertByScoreUnstable(Tail(sorted), x)

\* scoredFiles.sort((a, b) => b.score - a.score): stable, highest first
RECURSIVE InsertByScore(_, _)
InsertByScore(sorted, x) ==
  IF sorted = <<>> THEN <<x>>
  ELSE IF ScoreLess(Head(sorted).score, x.score) THEN <<x>> \o sorted
  ELSE <<Head(sorted)>> \o InsertByScore(Tail(sorted), x)

RECURSIVE SortByScore(_, _)
SortByScore(todo, sorted) ==
  IF todo = <<>> THEN sorted
  ELSE SortByScore(Tail(todo), InsertByScore(sorted, Head(todo)))

Crystallization == <<"c","r","y","s","t","a","l","l","i","z","a","t","i","o","n">>

\* s.replace(/crystallization\s*$/, '')
StripTrailingCrystallization(s) ==
  LET n == Len(Crystallization)
      hits == {i \in 1..(Len(s) - n + 1) :
                 /\ SubSeq(s, i, i + n - 1) = Crystallization
                 /\ \A j \in (i + n)..Len(s) : s[j] \in Whitespace}
  IN IF hits = {} THEN s
     ELSE SubSeq(s, 1, (CHOOSE i \in hits : \A j \in hits : i <= j) - 1)

RECURSIVE FilterNot(_, _)
FilterNot(parts, x) ==
  IF parts = <<>> THEN <<>>
  ELSE (IF Head(parts) = x THEN <<>> ELSE <<Head(parts)>>) \o FilterNot(Tail(parts), x)

Take(q, n) == SubSeq(q, 1, IF Len(q) < n THEN Len(q) ELSE n)

ProtocolSuggestion(filename) ==
  LET nameWithoutExt == ReplaceFirst(filename, DotCp, <<>>)
      parts == SplitOn(nameWithoutExt, Separators)
      lowered == [i \in 1..Len(parts) |-> ToLowerCase(parts[i])]
      suggestion == Trim(StripTrailingCrystallization(
                      Join(FilterNot(lowered, Crystallization),
                           <<" ">> \o Crystallization \o <<" ">>)))
  IN IF suggestion # <<>> THEN suggestion
     ELSE ReplaceClass(ToLowerCase(nameWithoutExt), Separators)

\* suggestions without the limit
generateSuggestionsUncapped(availableFiles) ==
  [i \in 1..Len(availableFiles) |-> ProtocolSuggestion(availableFiles[i])]

generateProtocolSuggestions(availableFiles) ==
  Take([i \in 1..Len(availableFiles) |-> ProtocolSuggestion(availableFiles[i])], 5)

CodexSuggestion(filename) ==
  LET nameWithoutExt == ReplaceFirst(filename, DotCx, <<>>)
      parts == SplitOn(nameWithoutExt, Separators)
      lowered == [i \in 1..Len(parts) |-> ToLowerCase(parts[i])]
      suggestion == Trim(Join(lowered, <<" ">>))
  IN IF suggestion # <<>> THEN suggestion
     ELSE ReplaceClass(ToLowerCase(nameWithoutExt), Separators)

generateCodexSuggestions(availableFiles) ==
  Take([i \in 1..Len(availableFiles) |-> CodexSuggestion(availableFiles[i])], 5)

\* query.toLowerCase().trim().split(/\s+/)
QueryWords(query) == SplitWhitespace(Trim(ToLowerCase(query)))

\* filename.toLowerCase().replace(/[_.-]/g, ' ')
NormalizeFilename(filename) == ReplaceClass(ToLowerCase(filename), Separators)

\* a scoring whose running score is not reset between candidates
RECURSIVE ScoreFilesCarry(_, _, _)
ScoreFilesCarry(queryWords, availableFiles, class) ==
  IF availableFiles = <<>> THEN <<>>
  ELSE LET n == Len(availableFiles)
           before == ScoreFilesCarry(queryWords, SubSeq(availableFiles, 1, n - 1), class)
           filename == NormalizeFilename(availableFiles[n])
           own == IF class = "codex" THEN calculateCodexMatchScore(queryWords, filename)
                  ELSE calculateProtocolMatchScore(queryWords, filename)
       IN Append(before,
                 [filename |-> availableFiles[n],
                  score |-> [sum |-> own.sum + (IF n > 1 THEN before[n - 1].score.sum ELSE 0),
                             n |-> own.n]])

ScoreFiles(queryWords, availableFiles, class) ==
  [i \in 1..Len(availableFiles) |->
     [filename |-> availableFiles[i],
      score |-> IF class = "codex"
                THEN calculateCodexMatchScore(queryWords, NormalizeFilename(availableFiles[i]))
                ELSE calculateProtocolMatchScore(queryWords, NormalizeFilename(availableFiles[i]))]]

\* the result built from the sorted list: scoredFiles[0] is undefined when
\* there is no candidate
BestMatch(scoredFiles, suggestions) ==
  IF scoredFiles = <<>>
  THEN [match |-> None, score |-> ZeroScore, suggestions |-> suggestions]
  ELSE LET bestMatch == scoredFiles[1]
       IN [match |-> IF MeetsThreshold(bestMatch.score) THEN bestMatch.filename ELSE None,
           score |-> bestMatch.score,
           suggestions |-> suggestions]

findBestProtocolMatch(query, availableFiles) ==
  BestMatch(SortByScore(ScoreFiles(QueryWords(query), availableFiles, "spec"), <<>>),
            generateProtocolSuggestions(availableFiles))

findBestCodexMatch(query, availableFiles) ==
  BestMatch(SortByScore(ScoreFiles(QueryWords(query), availableFiles, "codex"), <<>>),
            generateCodexSuggestions(availableFiles))

----------------------------------------------------------------------------
(* The file system the handlers see *)

DigitSeq == <<"0","1","2","3","4","5","6","7","8","9">>

\* an id generator that repeats itself
NanoIdRepeating(n) == <<"c", DigitSeq[1]>>

\* nanoid(): a fresh opaque id for every call (collisions are excluded, as the
\* 126-bit identifier space is meant to make them)
NanoId(n) == <<"c", DigitSeq[n + 1]>>

\* new Date().toISOString(): a clock that advances with every invocation
Now(n) == <<"t", DigitSeq[n + 1]>>

TemporalCp ==
  <<"C","R","Y","S","T","A","L","L","I","Z","A","T","I","O","N","_",
    "T","E","M","P","O","R","A","L","_","3",".","0",".","c","p">>
ReadmeMd == <<"R","E","A","D","M","E",".","m","d">>
AwarenessCx ==
  <<"M","E","C","H","A","N","I","S","M","_",
    "A","W","A","R","E","N","E","S","S","_","2",".","0",".","c","x">>

\* public/protocols and public/codex: static reference documents
protocolsListing == <<ReadmeMd, TemporalCp>>
codexListing == <<AwarenessCx>>

DocText(name) == <<"#">> \o name

\* a file of another application, next to the project root
OutsidePath == <<"/","s","r","v","/","k","e","y",".","c","r","y","s","t","a","l">>
OutsideText ==
  Stringify([id |-> <<"k","e","y">>, title |-> <<"K">>, spec_version |-> <<"3",".","0">>,
             created_at |-> <<"t","0">>, auto_detected |-> FALSE,
             content |-> <<"s","e","c","r","e","t">>])

NamesOf(entries) == [i \in 1..Len(entries) |-> entries[i].name]

\* a file that a checkout may hold in public/crystals
GitKeep == <<".","g","i","t","k","e","e","p">>

\* crystal_id of an import_crystal call: the first id nanoid hands out, an id
\* of no record, and one that climbs out of public/crystals
EscapingId == <<".",".","/",".",".","/",".",".","/","k","e","y">>
CrystalIds == {NanoId(0), <<"z","z">>, EscapingId}

\* const crystalsDir = getSafePath('public/crystals'), the same in every call
crystalsDir == getSafePath(PublicCrystals)

\* join(crystalsDir, name) for every name the handlers join to it: the files
\* of the directory and `${crystal_id}.crystal` of the ids asked for
JoinedNames ==
  {GitKeep} \cup {NanoId(n) \o DotCrystal : n \in 0..(Len(DigitSeq) - 1)}
            \cup {id \o DotCrystal : id \in CrystalIds}

JoinedPaths == [name \in JoinedNames |-> PathJoin(crystalsDir, name)]

JoinCrystalsDir(name) == JoinedPaths[name]

\* readFile(path, 'utf-8') of a path that could name a crystal file
ReadFile(path) ==
  LET hits == {i \in 1..Len(dir) : JoinCrystalsDir(dir[i].name) = path}
  IN IF dirExists /\ hits # {}
     THEN [err |-> "", text |-> dir[CHOOSE i \in hits : TRUE].text]
     ELSE IF path = OutsidePath THEN [err |-> "", text |-> OutsideText]
     ELSE [err |-> "ENOENT", text |-> <<>>]

\* readFile of a reference document below dirPath
ReadDoc(dirPath, listing, path) ==
  LET hits == {i \in 1..Len(listing) : PathJoin(dirPath, listing[i]) = path}
  IN IF hits # {}
     THEN [err |-> "", text |-> DocText(listing[CHOOSE i \in hits : TRUE])]
     ELSE [err |-> "ENOENT", text |-> <<>>]

\* writeFile opens the file with O_CREAT | O_TRUNC: a new entry appears at a
\* place of the file system's choosing (the head or the end of the
\* enumeration), an existing one is emptied
OpenedAt(entries, name, pos) ==
  IF \E i \in 1..Len(entries) : entries[i].name = name
  THEN [i \in 1..Len(entries) |->
          IF entries[i].name = name THEN [name |-> name, text |-> <<>>] ELSE entries[i]]
  ELSE SubSeq(entries, 1, pos - 1) \o <<[name |-> name, text |-> <<>>]>>
       \o SubSeq(entries, pos, Len(entries))

\* writeFile then writes the whole text
Written(entries, name, text) ==
  [i \in 1..Len(entries) |->
     IF entries[i].name = name THEN [name |-> name, text |-> text] ELSE entries[i]]

----------------------------------------------------------------------------
(* Tool invocations *)

\* an invocation runs with at most one other in flight
Slots == {1, 2}

NoArg == [title |-> Undefined, spec_version |-> Undefined, manual_content |-> Undefined,
          crystal_id |-> Undefined, spec_query |-> Undefined]

NoLoc == [crystalId |-> Undefined, title |-> Undefined, content |-> Undefined,
          text |-> <<>>, files |-> <<>>, i |-> 0, crystals |-> <<>>, read |-> <<>>,
          match |-> None, mkdirError |-> FALSE]

NoRes == [kind |-> "none"]

IdleProc == [op |-> "idle", pc |-> "idle", arg |-> NoArg, loc |-> NoLoc, res |-> NoRes,
             io |-> {}, clean |-> TRUE, known |-> FALSE]

\* a call takes the first slot that holds no invocation
Free(p) ==
  /\ procs[p].pc = "idle"
  /\ \A q \in 1..(p - 1) : procs[q].pc # "idle"

NewCall(op, pc, arg) == [IdleProc EXCEPT !.op = op, !.pc = pc, !.arg = arg]

\* the invocation as it returns
Done(proc, res) == [proc EXCEPT !.pc = "done", !.res = res]

\* slot p goes on as proc
Goes(p, proc) ==
  /\ procs' = [procs EXCEPT ![p] = proc]
  /\ UNCHANGED last

\* the invocation proc of slot p returns res and leaves the slot
Returns(p, proc, res) ==
  /\ procs' = [procs EXCEPT ![p] = IdleProc]
  /\ last' = Done(proc, res)

\* a listing that is under way while an export takes a step is no longer one
\* of two listings with no create in between
Marked(ps) ==
  [q \in Slots |->
     IF ps[q].op = "list_crystals" THEN [ps[q] EXCEPT !.clean = FALSE] ELSE ps[q]]

ExportGoes(p, proc) ==
  /\ procs' = Marked([procs EXCEPT ![p] = proc])
  /\ UNCHANGED last

ExportReturns(p, proc, res) ==
  /\ procs' = Marked([procs EXCEPT ![p] = IdleProc])
  /\ last' = Done(proc, res)

----------------------------------------------------------------------------
(* Inputs of the tools *)

\* {title, manual_content} of an export_crystal call: with and without a title,
\* with content (plain, and with characters JSON has to escape), without,
\* and with the empty string
ExportArgs ==
  { [title |-> <<"T">>, manual_content |-> <<"X">>],
    [title |-> Undefined, manual_content |-> <<"Y", Backslash, DoubleQuote>>],
    [title |-> Undefined, manual_content |-> Undefined],
    [title |-> <<"T">>, manual_content |-> <<>>] }

DefaultSpecVersion == <<"3", ".", "0">>

SpecQueries == {<<"t","e","m","p","o","r","a","l"," ","3",".","0">>, <<"z","z","z">>}
CodexQueries == {<<"a","w","a","r","e","n","e","s","s">>}

\* what a context scan yields, were one implemented
DetectOutcomes == {<<"A">>}

ManualPrefix == <<"M","a","n","u","a","l","_","C","r","y","s","t","a","l","_">>
AutoPrefix == <<"A","u","t","o","_","C","r","y","s","t","a","l","_">>

\* crystalId.slice(0, 8)
Slice8(id) == Take(id, 8)

----------------------------------------------------------------------------
(* export_crystal *)

\* extractLatestCrystalArtifact(): a placeholder that finds nothing
extractLatestCrystalArtifact == None

\* a test that takes anything for content
HasContentAlways(s) == TRUE

\* if (manual_content) / if (contextArtifact): null, undefined and "" are falsy
HasContent(s) == s # None /\ Truthy(s)

\* one file name for every record
CrystalFilenameFixed(crystalId) == NanoId(0) \o DotCrystal

\* const filename = `${crystalId}.crystal`
CrystalFilename(crystalId) == crystalId \o DotCrystal

\* a handler that takes every manual_content that is given, the empty string too
ResolveContentDefined(title, manual_content, contextArtifact, crystalId) ==
  IF manual_content # Undefined
  THEN [ok |-> TRUE, content |-> manual_content,
        title |-> OrElse(title, ManualPrefix \o Slice8(crystalId))]
  ELSE IF HasContent(contextArtifact)
  THEN [ok |-> TRUE, content |-> contextArtifact,
        title |-> OrElse(title, AutoPrefix \o Slice8(crystalId))]
  ELSE [ok |-> FALSE, content |-> Undefined, title |-> Undefined]

\* the content and title the handler settles on; ok = FALSE is the throw of
\* "No crystal artifact found in context window"
ResolveContent(title, manual_content, contextArtifact, crystalId) ==
  IF HasContent(manual_content)
  THEN [ok |-> TRUE, content |-> manual_content,
        title |-> OrElse(title, ManualPrefix \o Slice8(crystalId))]
  ELSE IF HasContent(contextArtifact)
  THEN [ok |-> TRUE, content |-> contextArtifact,
        title |-> OrElse(title, AutoPrefix \o Slice8(crystalId))]
  ELSE [ok |-> FALSE, content |-> Undefined, title |-> Undefined]

\* a record that never says its content was detected
CrystalDataManual(crystalId, rc, spec_version, manual_content, now) ==
  [id |-> crystalId,
   title |-> rc.title,
   spec_version |-> spec_version,
   created_at |-> now,
   auto_detected |-> FALSE,
   content |-> rc.content]

\* const crystalData = {...}
CrystalData(crystalId, rc, spec_version, manual_content, now) ==
  [id |-> crystalId,
   title |-> rc.title,
   spec_version |-> spec_version,
   created_at |-> now,
   auto_detected |-> ~HasContent(manual_content),
   content |-> rc.content]

NoContentMessage == "No crystal artifact found in context window"

\* a handler that looks for content first and creates the directory only when
\* there is some
ExportMkdirLazy(p) ==
  /\ Free(p)
  /\ calls < MaxCalls
  /\ \E a \in ExportArgs :
       LET call == NewCall("export_crystal", "mkdir",
                           [NoArg EXCEPT !.title = a.title,
                                         !.spec_version = DefaultSpecVersion,
                                         !.manual_content = a.manual_content])
       IN IF ~HasContent(a.manual_content) /\ ~HasContent(detected)
          THEN /\ ExportReturns(p, call, [kind |-> "export_error",
                                          message |-> NoContentMessage])
               /\ UNCHANGED dirExists
          ELSE /\ ExportGoes(p, [call EXCEPT !.pc = "open", !.io = {crystalsDir}])
               /\ dirExists' = TRUE
  /\ calls' = calls + 1
  /\ cleanLists' = <<>>
  /\ UNCHANGED <<dir, nextId, detected, exported>>

\* the call, getSafePath("public/crystals") and
\* await mkdir(crystalsDir, {recursive: true})
ExportMkdir(p) ==
  /\ Free(p)
  /\ calls < MaxCalls
  /\ \E a \in ExportArgs :
       LET call == NewCall("export_crystal", "mkdir",
                           [NoArg EXCEPT !.title = a.title,
                                         !.spec_version = DefaultSpecVersion,
                                         !.manual_content = a.manual_content])
       IN IF crystalsDir = PathOutsideRoot
          THEN /\ ExportReturns(p, call, [kind |-> "export_error",
                                          message |-> "Path is outside project root"])
               /\ UNCHANGED dirExists
          ELSE /\ ExportGoes(p, [call EXCEPT !.pc = "open", !.io = {crystalsDir}])
               /\ dirExists' = TRUE
  /\ calls' = calls + 1
  /\ cleanLists' = <<>>
  /\ UNCHANGED <<dir, nextId, detected, exported>>

\* the same call when mkdir throws (no permission, an I/O error, ...): the
\* catch block of the handler is empty, so the handler goes on as above, and
\* the directory is as it was
ExportMkdirFails(p) ==
  /\ Free(p)
  /\ calls < MaxCalls
  /\ crystalsDir # PathOutsideRoot
  /\ \E a \in ExportArgs :
       LET call == NewCall("export_crystal", "mkdir",
                           [NoArg EXCEPT !.title = a.title,
                                         !.spec_version = DefaultSpecVersion,
                                         !.manual_content = a.manual_content])
       IN ExportGoes(p, [call EXCEPT !.pc = "open", !.io = {crystalsDir},
                                     !.loc.mkdirError = TRUE])
  /\ calls' = calls + 1
  /\ cleanLists' = <<>>
  /\ UNCHANGED <<dirExists, dir, nextId, detected, exported>>

\* nanoid(), the choice of content, crystalData, and the open of writeFile,
\* which fails when the directory is not there
ExportOpen(p) ==
  /\ procs[p].op = "export_crystal"
  /\ procs[p].pc = "open"
  /\ LET a == procs[p].arg
         crystalId == NanoId(nextId)
         rc == ResolveContent(a.title, a.manual_content, detected, crystalId)
         crystalData == CrystalData(crystalId, rc, a.spec_version, a.manual_content, Now(calls))
         filename == CrystalFilename(crystalId)
         filepath == JoinCrystalsDir(filename)
     IN IF ~rc.ok
        THEN /\ ExportReturns(p, [procs[p] EXCEPT !.io = {}],
                              [kind |-> "export_error", message |-> NoContentMessage])
             /\ UNCHANGED dir
        ELSE IF ~dirExists
        THEN /\ ExportReturns(p, [procs[p] EXCEPT !.io = {filepath}],
                              [kind |-> "export_error", message |-> "ENOENT"])
             /\ UNCHANGED dir
        ELSE \E pos \in {1, Len(dir) + 1} :
               /\ dir' = OpenedAt(dir, filename, pos)
               /\ ExportGoes(p,
                    [procs[p] EXCEPT !.pc = "write", !.io = {filepath},
                                     !.loc = [procs[p].loc EXCEPT
                                                !.crystalId = crystalId,
                                                !.title = rc.title,
                                                !.content = rc.content,
                                                !.text = Stringify(crystalData)]])
  /\ nextId' = nextId + 1
  /\ cleanLists' = <<>>
  /\ UNCHANGED <<dirExists, calls, detected, exported>>

\* writeFile completes and the handler returns the success text
ExportWrite(p) ==
  /\ procs[p].op = "export_crystal"
  /\ procs[p].pc = "write"
  /\ LET l == procs[p].loc
         a == procs[p].arg
     IN /\ dir' = Written(dir, CrystalFilename(l.crystalId), l.text)
        /\ ExportReturns(p, procs[p],
                         [kind |-> "exported", id |-> l.crystalId, title |-> l.title,
                          spec_version |-> a.spec_version,
                          auto_detected |-> ~HasContent(a.manual_content)])
        /\ exported' = exported \cup {[id |-> l.crystalId, content |-> l.content]}
  /\ cleanLists' = <<>>
  /\ UNCHANGED <<dirExists, calls, nextId, detected>>

----------------------------------------------------------------------------
(* import_crystal *)

\* join(crystalsDir, `${crystal_id}.crystal`)
ImportPath(crystal_id) == JoinCrystalsDir(crystal_id \o DotCrystal)

\* a handler that lets the failure of JSON.parse and of the format check out
ImportResultUncaught(crystal_id, text) ==
  IF ~Parses(text) \/ ~Truthy(JsonParse(text).content)
  THEN [kind |-> "thrown", crystal_id |-> crystal_id, message |-> "uncaught"]
  ELSE LET crystalData == JsonParse(text)
       IN [kind |-> "imported", crystal_id |-> crystal_id,
           title |-> OrElse(crystalData.title, <<"Untitled">>),
           spec_version |-> OrElse(crystalData.spec_version, <<"Unknown">>),
           created_at |-> OrElse(crystalData.created_at, <<"Unknown">>),
           content |-> crystalData.content]

\* what the handler returns for the text it read
ImportResult(crystal_id, text) ==
  IF ~Parses(text)
  THEN [kind |-> "import_error", crystal_id |-> crystal_id, message |-> "JSON.parse"]
  ELSE LET crystalData == JsonParse(text)
       IN IF ~Truthy(crystalData.content)
          THEN [kind |-> "import_error", crystal_id |-> crystal_id,
                message |-> "Invalid crystal format: missing content field"]
          ELSE [kind |-> "imported", crystal_id |-> crystal_id,
                title |-> OrElse(crystalData.title, <<"Untitled">>),
                spec_version |-> OrElse(crystalData.spec_version, <<"Unknown">>),
                created_at |-> OrElse(crystalData.created_at, <<"Unknown">>),
                content |-> crystalData.content]

\* the call, await readFile(filepath), JSON.parse and the format check
ImportRead(p) ==
  /\ Free(p)
  /\ calls < MaxCalls
  /\ \E crystal_id \in CrystalIds :
       LET filepath == ImportPath(crystal_id)
           call == [NewCall("import_crystal", "read",
                            [NoArg EXCEPT !.crystal_id = crystal_id,
                                          !.spec_version = DefaultSpecVersion])
                      EXCEPT !.known = \E e \in exported : e.id = crystal_id,
                             !.io = {filepath}]
           r == ReadFile(filepath)
       IN IF r.err = "ENOENT"
          THEN Goes(p, [call EXCEPT !.pc = "enum"])
          ELSE Returns(p, call, ImportResult(crystal_id, r.text))
  /\ calls' = calls + 1
  /\ UNCHANGED <<dirExists, dir, nextId, detected, exported, cleanLists>>

\* f => f.endsWith('.crystal')
IsCrystalFile(f) == EndsWith(f, DotCrystal)

\* an id that keeps the extension
CrystalIdKeepExt(f) == f

\* f => f.replace('.crystal', '')
CrystalIdOf(f) == ReplaceFirst(f, DotCrystal, <<>>)

RECURSIVE FilterCrystal(_)
FilterCrystal(names) ==
  IF names = <<>> THEN <<>>
  ELSE (IF IsCrystalFile(Head(names)) THEN <<Head(names)>> ELSE <<>>)
       \o FilterCrystal(Tail(names))

AvailableCrystals(crystalFiles) ==
  LET fs == FilterCrystal(crystalFiles)
  IN [i \in 1..Len(fs) |-> CrystalIdOf(fs[i])]

\* a handler that creates the directory before it lists it
ImportEnumMkdir(p) ==
  /\ procs[p].op = "import_crystal"
  /\ procs[p].pc = "enum"
  /\ Returns(p, [procs[p] EXCEPT !.io = {crystalsDir}, !.loc.files = NamesOf(dir)],
             [kind |-> "not_found", crystal_id |-> procs[p].arg.crystal_id,
              available |-> AvailableCrystals(NamesOf(dir)),
              listError |-> FALSE])
  /\ dirExists' = TRUE
  /\ UNCHANGED <<dir, calls, nextId, detected, exported, cleanLists>>

\* the ENOENT branch: await readdir(crystalsDir) and the not-found text
ImportEnum(p) ==
  /\ procs[p].op = "import_crystal"
  /\ procs[p].pc = "enum"
  /\ LET crystal_id == procs[p].arg.crystal_id
     IN IF dirExists
        THEN Returns(p, [procs[p] EXCEPT !.io = {crystalsDir}, !.loc.files = NamesOf(dir)],
                     [kind |-> "not_found", crystal_id |-> crystal_id,
                      available |-> AvailableCrystals(NamesOf(dir)),
                      listError |-> FALSE])
        ELSE Returns(p, [procs[p] EXCEPT !.io = {crystalsDir}],
                     [kind |-> "not_found", crystal_id |-> crystal_id,
                      available |-> <<>>,
                      listError |-> TRUE])
  /\ UNCHANGED <<dirExists, dir, calls, nextId, detected, exported, cleanLists>>

----------------------------------------------------------------------------
(* list_crystals *)

\* the index of the next *.crystal entry after i, Len + 1 when there is none
NextCrystal(crystalFiles, i) ==
  LET rest == {j \in (i + 1)..Len(crystalFiles) : IsCrystalFile(crystalFiles[j])}
  IN IF rest = {} THEN Len(crystalFiles) + 1
     ELSE CHOOSE j \in rest : \A k \in rest : j <= k

\* a listing whose parse-error entry carries the time of the listing
ListEntryStamped(file, r) ==
  IF r.err = "" /\ Parses(r.text)
  THEN LET crystalData == JsonParse(r.text)
       IN [id |-> OrElse(crystalData.id, CrystalIdOf(file)),
           title |-> OrElse(crystalData.title, <<"Untitled">>),
           spec_version |-> OrElse(crystalData.spec_version, <<"Unknown">>),
           created_at |-> OrElse(crystalData.created_at, <<"Unknown">>),
           size |-> TextLength(r.text),
           error |-> ""]
  ELSE [id |-> CrystalIdOf(file),
        title |-> <<"Parse Error">>,
        spec_version |-> <<"Unknown">>,
        created_at |-> Now(calls),
        size |-> 0,
        error |-> "Failed to parse crystal file"]

\* a listing that passes a record it cannot parse off as a record
ListEntryUnmarked(file, r) ==
  IF r.err = "" /\ Parses(r.text)
  THEN LET crystalData == JsonParse(r.text)
       IN [id |-> OrElse(crystalData.id, CrystalIdOf(file)),
           title |-> OrElse(crystalData.title, <<"Untitled">>),
           spec_version |-> OrElse(crystalData.spec_version, <<"Unknown">>),
           created_at |-> OrElse(crystalData.created_at, <<"Unknown">>),
           size |-> TextLength(r.text),
           error |-> ""]
  ELSE [id |-> Undefined,
        title |-> <<"Untitled">>,
        spec_version |-> <<"Unknown">>,
        created_at |-> <<"Unknown">>,
        size |-> 0,
        error |-> ""]

\* a listing that shows no titles
ListEntryUntitled(file, r) ==
  IF r.err = "" /\ Parses(r.text)
  THEN LET crystalData == JsonParse(r.text)
       IN [id |-> OrElse(crystalData.id, CrystalIdOf(file)),
           title |-> <<"Untitled">>,
           spec_version |-> OrElse(crystalData.spec_version, <<"Unknown">>),
           created_at |-> OrElse(crystalData.created_at, <<"Unknown">>),
           size |-> TextLength(r.text),
           error |-> ""]
  ELSE [id |-> CrystalIdOf(file),
        title |-> <<"Parse Error">>,
        spec_version |-> <<"Unknown">>,
        created_at |-> <<"Unknown">>,
        size |-> 0,
        error |-> "Failed to parse crystal file"]

\* the entry pushed for one file: the summary, or the parse-error entry
ListEntry(file, r) ==
  IF r.err = "" /\ Parses(r.text)
  THEN LET crystalData == JsonParse(r.text)
       IN [id |-> OrElse(crystalData.id, CrystalIdOf(file)),
           title |-> OrElse(crystalData.title, <<"Untitled">>),
           spec_version |-> OrElse(crystalData.spec_version, <<"Unknown">>),
           created_at |-> OrElse(crystalData.created_at, <<"Unknown">>),
           size |-> TextLength(r.text),
           error |-> ""]
  ELSE [id |-> CrystalIdOf(file),
        title |-> <<"Parse Error">>,
        spec_version |-> <<"Unknown">>,
        created_at |-> <<"Unknown">>,
        size |-> 0,
        error |-> "Failed to parse crystal file"]

\* a listing returns: one that no export step disturbed is remembered
ListReturns(p, proc, res) ==
  /\ Returns(p, proc, res)
  /\ cleanLists' = IF proc.clean THEN Append(cleanLists, res) ELSE cleanLists

\* the call and await readdir(crystalsDir)
ListReaddir(p) ==
  /\ Free(p)
  /\ calls < MaxCalls
  /\ LET call == [NewCall("list_crystals", "readdir", NoArg) EXCEPT !.io = {crystalsDir}]
     IN IF ~dirExists
        THEN ListReturns(p, call, [kind |-> "list_error", crystals |-> <<>>])
        ELSE LET crystalFiles == NamesOf(dir)
                 first == NextCrystal(crystalFiles, 0)
             IN IF first > Len(crystalFiles)
                THEN ListReturns(p, [call EXCEPT !.loc.files = crystalFiles],
                                 [kind |-> "listing", crystals |-> <<>>])
                ELSE /\ Goes(p, [call EXCEPT !.pc = "readfile",
                                             !.loc.files = crystalFiles,
                                             !.loc.i = first])
                     /\ UNCHANGED cleanLists
  /\ calls' = calls + 1
  /\ UNCHANGED <<dirExists, dir, nextId, detected, exported>>

\* one turn of the loop: await readFile(filepath), JSON.parse, crystals.push
ListReadFile(p) ==
  /\ procs[p].op = "list_crystals"
  /\ procs[p].pc = "readfile"
  /\ LET l == procs[p].loc
         file == l.files[l.i]
         filepath == JoinCrystalsDir(file)
         r == ReadFile(filepath)
         crystals == Append(l.crystals, ListEntry(file, r))
         next == NextCrystal(l.files, l.i)
         proc == [procs[p] EXCEPT !.io = {filepath},
                                  !.loc.crystals = crystals,
                                  !.loc.read = Append(l.read, r.text),
                                  !.loc.i = next]
     IN IF next > Len(l.files)
        THEN ListReturns(p, proc, [kind |-> "listing", crystals |-> crystals])
        ELSE Goes(p, proc) /\ UNCHANGED cleanLists
  /\ UNCHANGED <<dirExists, dir, calls, nextId, detected, exported>>

----------------------------------------------------------------------------
(* import_crystal_spec and import_codex *)

RECURSIVE FilterExt(_, _)
FilterExt(names, ext) ==
  IF names = <<>> THEN <<>>
  ELSE (IF EndsWith(Head(names), ext) THEN <<Head(names)>> ELSE <<>>)
       \o FilterExt(Tail(names), ext)

\* the reference directories never change: what each handler computes from
\* its listing, per query
ProtocolMatches ==
  [q \in SpecQueries |-> findBestProtocolMatch(q, FilterExt(protocolsListing, DotCp))]

CodexMatches ==
  [q \in CodexQueries |-> findBestCodexMatch(q, FilterExt(codexListing, DotCx))]

\* one invocation: await readdir(dir), the extension filter, the smart
\* matching and await readFile(join(dir, matchResult.match)); the directories
\* of reference documents never change, so the two reads are one step
ImportByQuery(p, op, queries, inputPath, listing, ext, class) ==
  /\ Free(p)
  /\ calls < MaxCalls
  /\ \E spec_query \in queries :
       LET dirPath == getSafePath(inputPath)
           files == FilterExt(listing, ext)
           matchResult == IF class = "codex" THEN CodexMatches[spec_query]
                          ELSE ProtocolMatches[spec_query]
           path == PathJoin(dirPath, matchResult.match)
           r == ReadDoc(dirPath, listing, path)
           call == [NewCall(op, "readdir", [NoArg EXCEPT !.spec_query = spec_query])
                      EXCEPT !.io = {dirPath}, !.loc.files = files]
       IN IF files = <<>> THEN Returns(p, call, [kind |-> "no_files"])
          ELSE IF matchResult.match = None
          THEN Returns(p, call, [kind |-> "no_match", query |-> spec_query, files |-> files,
                                 suggestions |-> matchResult.suggestions])
          ELSE IF r.err # ""
          THEN Returns(p, [call EXCEPT !.io = {dirPath, path}],
                       [kind |-> "query_error", message |-> r.err])
          ELSE Returns(p, [call EXCEPT !.io = {dirPath, path},
                                       !.loc.match = matchResult.match],
                       [kind |-> "document", file |-> matchResult.match,
                        query |-> spec_query, score |-> matchResult.score,
                        content |-> r.text])
  /\ calls' = calls + 1
  /\ UNCHANGED <<dirExists, dir, nextId, detected, exported, cleanLists>>

ImportCrystalSpec(p) ==
  ImportByQuery(p, "import_crystal_spec", SpecQueries,
                PublicProtocols, protocolsListing, DotCp, "spec")

ImportCodex(p) ==
  ImportByQuery(p, "import_codex", CodexQueries, PublicCodex, codexListing, DotCx, "codex")

----------------------------------------------------------------------------
(* The store: initial states and next-state relation *)

NoResult ==
  [match |-> None, score |-> ZeroScore, suggestions |-> <<>>, scored |-> <<>>, done |-> FALSE]

MatchIdle ==
  /\ mq = <<>>
  /\ mfiles = <<>>
  /\ mclass = "spec"
  /\ mres = NoResult

\* a fresh checkout has no public/crystals, or has it with a placeholder file
InitStore(detect) ==
  /\ dirExists \in BOOLEAN
  /\ dir = IF dirExists THEN <<[name |-> GitKeep, text |-> <<>>]>> ELSE <<>>
  /\ procs = [p \in Slots |-> IdleProc]
  /\ last = IdleProc
  /\ calls = 0
  /\ nextId = 0
  /\ detected \in detect
  /\ exported = {}
  /\ cleanLists = <<>>

Init == InitStore({extractLatestCrystalArtifact}) /\ MatchIdle

InitDetect == InitStore(DetectOutcomes) /\ MatchIdle

Next ==
  \E p \in Slots :
    \/ ExportMkdir(p) /\ UNCHANGED matchVars
    \/ ExportOpen(p) /\ UNCHANGED matchVars
    \/ ExportWrite(p) /\ UNCHANGED matchVars
    \/ ImportRead(p) /\ UNCHANGED matchVars
    \/ ImportEnum(p) /\ UNCHANGED matchVars
    \/ ListReaddir(p) /\ UNCHANGED matchVars
    \/ ListReadFile(p) /\ UNCHANGED matchVars
    \/ ImportCrystalSpec(p) /\ UNCHANGED matchVars
    \/ ImportCodex(p) /\ UNCHANGED matchVars

Spec == Init /\ [][Next]_vars

\* export_crystal with a context scan that finds an artifact
NextDetect ==
  \E p \in Slots :
    \/ ExportMkdir(p) /\ UNCHANGED matchVars
    \/ ExportOpen(p) /\ UNCHANGED matchVars
    \/ ExportWrite(p) /\ UNCHANGED matchVars

SpecDetect == InitDetect /\ [][NextDetect]_vars

\* the store when mkdir can fail
NextFaults ==
  \E p \in Slots :
    \/ ExportMkdir(p) /\ UNCHANGED matchVars
    \/ ExportMkdirFails(p) /\ UNCHANGED matchVars
    \/ ExportOpen(p) /\ UNCHANGED matchVars
    \/ ExportWrite(p) /\ UNCHANGED matchVars
    \/ ImportRead(p) /\ UNCHANGED matchVars
    \/ ImportEnum(p) /\ UNCHANGED matchVars
    \/ ListReaddir(p) /\ UNCHANGED matchVars
    \/ ListReadFile(p) /\ UNCHANGED matchVars

SpecFaults == Init /\ [][NextFaults]_vars

----------------------------------------------------------------------------
(* The MatchEngine on its own: one call of findBestProtocolMatch or of       *)
(* findBestCodexMatch on a query and a directory listing                    *)

BasicCp ==
  <<"C","R","Y","S","T","A","L","L","I","Z","A","T","I","O","N","_",
    "B","A","S","I","C","_","2",".","0",".","c","p">>
DraftCp == <<"_","d","r","a","f","t",".","c","p">>

\* a name whose version number follows a letter
VersionedCp == <<"S","P","E","C","_","v","3",".","0",".","c","p">>

CandidatePool == <<TemporalCp, BasicCp, AwarenessCx, DraftCp, VersionedCp>>

\* the listings of at most n distinct names of the pool, in any order
RECURSIVE Listings(_)
Listings(n) ==
  IF n = 0 THEN {<<>>}
  ELSE Listings(n - 1) \cup
       {Append(l, CandidatePool[i]) :
          l \in {m \in Listings(n - 1) : Len(m) = n - 1},
          i \in 1..Len(CandidatePool)}

DistinctNames(l) == \A i, j \in 1..Len(l) : i # j => l[i] # l[j]

CandidateLists == {l \in Listings(MaxCandidates) : DistinctNames(l)}

QueryVocabulary ==
  { <<"t","e","m","p","o","r","a","l">>, <<"T","e","m">>, <<"3",".","0">>, <<"2">>,
    <<"z","z","z">> }

\* the queries of at most n words of the vocabulary, single spaces between
RECURSIVE WordQueries(_)
WordQueries(n) ==
  IF n = 0 THEN {<<>>}
  ELSE WordQueries(n - 1) \cup
       {IF q = <<>> THEN w ELSE q \o <<" ">> \o w :
          q \in WordQueries(n - 1), w \in QueryVocabulary}

\* the empty query, blank queries, padded ones, one whose best score is
\* exactly 0.3: "3 q q q q q" scores (1.0 + 0.8) / 6 on *_3.0.cp, one whose
\* number follows a letter, one written with separators, and queries of one
\* and of two codex terms
EdgeQueries ==
  { <<" ">>, <<" ", "\t">>, <<" ","3",".","0"," "," ","z","z","z">>,
    <<"3"," ","q"," ","q"," ","q"," ","q"," ","q">>, <<"v","3">>,
    <<"t","e","m","p","o","r","a","l","_","3",".","0">>,
    <<"a","w","a","r","e","n","e","s","s">>,
    <<"m","e","c","h","a","n","i","s","m"," ","a","w","a","r","e","n","e","s","s">>,
    <<"a","w","a","r","e","n","e","s","s"," ","2">> }

Queries == WordQueries(MaxQueryWords) \cup EdgeQueries

StoreIdle ==
  /\ dirExists = FALSE
  /\ dir = <<>>
  /\ procs = [p \in Slots |-> IdleProc]
  /\ last = IdleProc
  /\ calls = 0
  /\ nextId = 0
  /\ detected = extractLatestCrystalArtifact
  /\ exported = {}
  /\ cleanLists = <<>>

InitMatch ==
  /\ StoreIdle
  /\ mq \in Queries
  /\ mfiles \in CandidateLists
  /\ mclass \in {"spec", "codex"}
  /\ mres = NoResult

MatchProtocol ==
  /\ mclass = "spec"
  /\ ~mres.done
  /\ LET r == findBestProtocolMatch(mq, mfiles)
     IN mres' = [match |-> r.match, score |-> r.score,
                 suggestions |-> r.suggestions,
                 scored |-> ScoreFiles(QueryWords(mq), mfiles, "spec"),
                 done |-> TRUE]
  /\ UNCHANGED <<mq, mfiles, mclass>>
  /\ UNCHANGED storeVars

MatchCodex ==
  /\ mclass = "codex"
  /\ ~mres.done
  /\ LET r == findBestCodexMatch(mq, mfiles)
     IN mres' = [match |-> r.match, score |-> r.score,
                 suggestions |-> r.suggestions,
                 scored |-> ScoreFiles(QueryWords(mq), mfiles, "codex"),
                 done |-> TRUE]
  /\ UNCHANGED <<mq, mfiles, mclass>>
  /\ UNCHANGED storeVars

NextMatch == MatchProtocol \/ MatchCodex

SpecMatch == InitMatch /\ [][NextMatch]_vars

----------------------------------------------------------------------------
(* The documented examples: the directory of the matching test, the          *)
(* directory the README describes, and the queries both give                 *)

Protocol20Txt ==
  <<"C","R","Y","S","T","A","L","L","I","Z","A","T","I","O","N","_","P","R","O","T","O",
    "C","O","L","_","2",".","0",".","t","x","t">>
Protocol21Txt ==
  <<"C","R","Y","S","T","A","L","L","I","Z","A","T","I","O","N","_","P","R","O","T","O",
    "C","O","L","_","2",".","1","_","w","i","t","h","_","c","o","m","p","r","e","s","s",
    "i","o","n",".","t","x","t">>
AdvancedCp ==
  <<"C","R","Y","S","T","A","L","L","I","Z","A","T","I","O","N","_","A","D","V","A","N",
    "C","E","D","_","4",".","0",".","c","p">>

\* availableFiles of the matching test
TestFiles == <<Protocol20Txt, Protocol21Txt, TemporalCp>>

\* the protocol files the README lists
ReadmeFiles == <<TemporalCp, BasicCp, AdvancedCp>>

\* testQueries of the matching test
TestQueries ==
  { <<"t","e","m","p","o","r","a","l"," ","c","r","y","s","t","a","l","l","i","z","a",
      "t","i","o","n"," ","3",".","0">>,
    <<"t","e","m","p","o","r","a","l"," ","3",".","0">>,
    <<"3",".","0"," ","t","e","m","p","o","r","a","l">>,
    <<"c","o","m","p","r","e","s","s","i","o","n"," ","2",".","1">>,
    <<"2",".","1"," ","c","o","m","p","r","e","s","s","i","o","n">>,
    <<"b","a","s","i","c"," ","2",".","0">>,
    <<"p","r","o","t","o","c","o","l"," ","2",".","0">>,
    <<"c","r","y","s","t","a","l","l","i","z","a","t","i","o","n"," ","2",".","0">>,
    <<"n","o","n","e","x","i","s","t","e","n","t"," ","9",".","9">> }

\* the further queries of the README examples
ReadmeQueries ==
  { <<"b","a","s","i","c"," ","c","r","y","s","t","a","l","l","i","z","a","t","i","o",
      "n"," ","2",".","0">>,
    <<"a","d","v","a","n","c","e","d"," ","c","r","y","s","t","a","l","l","i","z","a",
      "t","i","o","n"," ","4",".","0">> }

\* the lists of distinct names of a directory, of every length, in any order
RECURSIVE ListingsOf(_, _)
ListingsOf(pool, n) ==
  IF n = 0 THEN {<<>>}
  ELSE ListingsOf(pool, n - 1) \cup
       {Append(l, pool[i]) :
          l \in {m \in ListingsOf(pool, n - 1) : Len(m) = n - 1},
          i \in 1..Len(pool)}

\* a directory that holds all of them: more names than there are suggestions
AllFiles == <<Protocol20Txt, Protocol21Txt, TemporalCp, BasicCp, AdvancedCp, AwarenessCx>>

ExampleLists ==
  {l \in ListingsOf(TestFiles, Len(TestFiles)) \cup ListingsOf(ReadmeFiles, Len(ReadmeFiles)) :
     DistinctNames(l)}
  \cup {AllFiles, [i \in 1..Len(AllFiles) |-> AllFiles[Len(AllFiles) + 1 - i]]}

InitExamples ==
  /\ StoreIdle
  /\ mq \in TestQueries \cup ReadmeQueries
  /\ mfiles \in ExampleLists
  /\ mclass \in {"spec", "codex"}
  /\ mres = NoResult

SpecExamples == InitExamples /\ [][NextMatch]_vars

----------------------------------------------------------------------------
(* Properties of the store and of the MatchEngine *)

\* the record files of a listing of public/crystals, as ids with the extension
CrystalNames(names) == FilterCrystal(names)

\* export_crystal has no content to store: manual_content absent or empty, and
\* nothing detected
NoContentGiven(arg) ==
  /\ arg.manual_content \in {Undefined, <<>>}
  /\ detected \in {None, Undefined, <<>>}

\* C1: path containment. Every path a tool invocation reads or writes, for
\* every argument a caller can supply, is the project root or lies below it.
\* (Stated as the claim states it; import_crystal breaks it.)
C1_PathContainment ==
  /\ \A p \in Slots : \A path \in procs[p].io : InsideRoot(path)
  /\ \A path \in last.io : InsideRoot(path)

\* C2: round trip. import_crystal of an id that export_crystal returned
\* before the import was called returns the record, and its content is exactly
\* the content that was exported, whatever else ran before, between or beside.
C2_RoundTrip ==
  (last.op = "import_crystal" /\ last.known) =>
    /\ last.res.kind = "imported"
    /\ \E e \in exported : e.id = last.arg.crystal_id /\ e.content = last.res.content

C2_Witness ==
  /\ last.op = "import_crystal"
  /\ last.known
  /\ last.res.kind = "imported"
  /\ last.res.content = <<"Y", Backslash, DoubleQuote>>
  /\ Len(dir) >= 3

\* C3: artifact immutability. No step of any tool removes a record that is
\* completely written or changes its text, and public/crystals stays: the
\* set of persisted records only grows.
C3_Immutable ==
  [][ /\ dirExists => dirExists'
      /\ \A i \in 1..Len(dir) :
           Parses(dir[i].text) => \E j \in 1..Len(dir') : dir'[j] = dir[i] ]_vars

C3_Witness ==
  \E i, j \in 1..Len(dir) :
    /\ i # j
    /\ Parses(dir[i].text)
    /\ Parses(dir[j].text)
    /\ last.op = "export_crystal"
    /\ last.res.kind = "exported"

\* C4: empty query. Matching the empty query, or one of only whitespace,
\* reports score 0 and no match, for every candidate list and both classes.
\* (Stated as the claim states it; the engine breaks it.)
C4_EmptyQuery ==
  (mres.done /\ Trim(mq) = <<>>) =>
    /\ mres.score.sum = 0
    /\ mres.match = None

\* C5: export_crystal with no content given and nothing detected returns the
\* "No crystal artifact found" error, and no step of that call, from the call
\* itself to its return, changes the records of public/crystals.
C5_NoContent ==
  [][ \A p \in Slots :
        /\ (procs[p].op = "idle" /\ procs'[p].op = "export_crystal"
              /\ NoContentGiven(procs'[p].arg)) => dir' = dir
        /\ (procs[p].op = "export_crystal" /\ NoContentGiven(procs[p].arg)
              /\ procs'[p] # procs[p]) =>
             /\ dir' = dir
             /\ procs'[p] = IdleProc
             /\ last'.arg = procs[p].arg
             /\ last'.res = [kind |-> "export_error", message |-> NoContentMessage] ]_vars

C5_Witness ==
  /\ last.op = "export_crystal"
  /\ NoContentGiven(last.arg)
  /\ last.res.kind = "export_error"
  /\ \E i \in 1..Len(dir) : Parses(dir[i].text)

\* C6: auto_detected. The record of a successful export says auto_detected =
\* true exactly when no content was given and the content is the detected
\* one; with content given the record holds that content and says false.
C6_AutoDetected ==
  (last.op = "export_crystal" /\ last.res.kind = "exported") =>
    LET r == ReadFile(JoinCrystalsDir(CrystalFilename(last.res.id)))
        crystalData == JsonParse(r.text)
        given == last.arg.manual_content
    IN /\ r.err = ""
       /\ Parses(r.text)
       /\ IF given \in {Undefined, <<>>}
          THEN crystalData.content = detected /\ crystalData.auto_detected
               /\ last.res.auto_detected
          ELSE crystalData.content = given /\ ~crystalData.auto_detected
               /\ ~last.res.auto_detected

C6_Witness ==
  /\ last.op = "export_crystal"
  /\ last.res.kind = "exported"
  /\ last.arg.manual_content = Undefined
  /\ \E i \in 1..Len(dir) :
       /\ dir[i].name = CrystalFilename(last.res.id)
       /\ Parses(dir[i].text)
       /\ JsonParse(dir[i].text).auto_detected
       /\ JsonParse(dir[i].text).content = <<"A">>

C8_Listing ==
  (last.op = "list_crystals" /\ last.res.kind = "listing") =>
    LET files == CrystalNames(last.loc.files)
        crystals == last.res.crystals
    IN /\ Len(crystals) = Len(files)
       /\ Len(last.loc.read) = Len(files)
       /\ \A i \in 1..Len(files) :
            /\ crystals[i].id \o DotCrystal = files[i]
            /\ IF Parses(last.loc.read[i])
               THEN /\ crystals[i].error = ""
                    /\ crystals[i].title = JsonParse(last.loc.read[i]).title
                    /\ crystals[i].created_at = JsonParse(last.loc.read[i]).created_at
               ELSE /\ crystals[i].error # ""
                    /\ crystals[i].title = <<"Parse Error">>

C8_Witness ==
  /\ last.op = "list_crystals"
  /\ last.res.kind = "listing"
  /\ \E i, j \in 1..Len(last.res.crystals) :
       /\ last.res.crystals[i].error = ""
       /\ last.res.crystals[j].error # ""

\* C9: idempotence of list. The list_crystals calls that run with no step of
\* an export_crystal between the first one's call and the last one's return
\* all return the same result; import_crystal and the query imports in
\* between change nothing.
C9_ListIdempotent ==
  \A i, j \in 1..Len(cleanLists) : cleanLists[i] = cleanLists[j]

C9_Witness ==
  /\ Len(cleanLists) >= 2
  /\ cleanLists[1].kind = "listing"
  /\ Len(cleanLists[1].crystals) >= 1

\* C10: threshold policy. For a non-empty candidate list the reported score
\* is the highest candidate score; a match is present exactly when that score
\* is at least 0.3, and it is then a candidate that has the highest score.
C10_Threshold ==
  (mres.done /\ mfiles # <<>>) =>
    LET scored == ScoreFiles(QueryWords(mq), mfiles, mclass)
        IsTop(i) == \A j \in 1..Len(scored) : ~ScoreLess(scored[i].score, scored[j].score)
    IN /\ \E i \in 1..Len(scored) : IsTop(i) /\ ScoreEq(mres.score, scored[i].score)
       /\ (mres.match # None) <=>
            (\E i \in 1..Len(scored) :
               IsTop(i) /\ 10 * scored[i].score.sum >= 30 * scored[i].score.n)
       /\ (mres.match # None) =>
            (\E i \in 1..Len(scored) : IsTop(i) /\ scored[i].filename = mres.match)

C10_Witness ==
  /\ mres.done
  /\ Len(mfiles) >= 2
  /\ mres.match # None
  /\ mres.score.sum = 3 * mres.score.n

\* the places in the candidate list of the candidates with the highest score
TopIndices(queryWords, availableFiles, class) ==
  LET scored == ScoreFiles(queryWords, availableFiles, class)
  IN {i \in 1..Len(scored) :
        \A j \in 1..Len(scored) : ~ScoreLess(scored[i].score, scored[j].score)}

\* C11: tie-breaking. When several candidates share the highest score and it
\* meets the threshold, the match is the one of them that comes first in the
\* candidate list as given.
C11_TieBreak ==
  (mres.done /\ mres.match # None) =>
    LET top == TopIndices(QueryWords(mq), mfiles, mclass)
    IN mres.match = mfiles[CHOOSE i \in top : \A j \in top : i <= j]

C11_Witness ==
  /\ mres.done
  /\ mres.match # None
  /\ Cardinality(TopIndices(QueryWords(mq), mfiles, mclass)) >= 2
  /\ mres.match = mfiles[1]
  /\ mfiles[1] = AwarenessCx

Reverse(l) == [i \in 1..Len(l) |-> l[Len(l) + 1 - i]]

\* C12: for a fixed query the score of a candidate depends on the query and
\* on that candidate's name only: it is the score the candidate gets when it
\* is the only candidate, and the score it gets when the list is reversed.
C12_ScoreOfCandidate ==
  mres.done =>
    LET queryWords == QueryWords(mq)
        n == Len(mfiles)
        reversed == ScoreFiles(queryWords, Reverse(mfiles), mclass)
    IN /\ Len(mres.scored) = n
       /\ \A i \in 1..n :
            /\ mres.scored[i].filename = mfiles[i]
            /\ mres.scored[i].score = ScoreFiles(queryWords, <<mfiles[i]>>, mclass)[1].score
            /\ mres.scored[i].score = reversed[n + 1 - i].score

C12_Witness ==
  /\ mres.done
  /\ Len(mfiles) >= 2
  /\ \A i \in 1..Len(mfiles) : mres.scored[i].score.sum > 0
  /\ mres.scored[1].score # mres.scored[2].score
  /\ Len(FilterVersionTest(QueryWords(mq), 0)) >= 1

\* a query word that is a version number as a whole: digits, an optional ".",
\* digits
IsVersionToken(w) ==
  /\ w # <<>>
  /\ VersionExec(w, 1) = [at |-> 1, to |-> Len(w)]

\* C13: version contribution. A candidate whose file name contains a version
\* token of the query literally scores at least 0.8 / (number of query words).
\* (Stated as the claim states it; the engine breaks it.)
C13_VersionContribution ==
  mres.done =>
    LET queryWords == QueryWords(mq)
    IN \A i \in 1..Len(mfiles) :
         (\E k \in 1..Len(queryWords) :
             IsVersionToken(queryWords[k]) /\ Includes(mfiles[i], queryWords[k]))
           => mres.scored[i].score.sum >= 8

TemporalQueries ==
  { <<"t","e","m","p","o","r","a","l"," ","3",".","0">>,
    <<"3",".","0"," ","t","e","m","p","o","r","a","l">>,
    <<"t","e","m","p","o","r","a","l"," ","c","r","y","s","t","a","l","l","i","z","a",
      "t","i","o","n"," ","3",".","0">> }

CompressionQuery ==
  <<"c","o","m","p","r","e","s","s","i","o","n"," ","2",".","1">>

Contains(l, x) == \E i \in 1..Len(l) : l[i] = x

\* C14: the documented examples. In every listing of the test's or the
\* README's directory that holds CRYSTALLIZATION_TEMPORAL_3.0.cp, the queries
\* "temporal 3.0", "3.0 temporal" and "temporal crystallization 3.0" return
\* that file with a score of at least 0.3; in the listings of the two
\* CRYSTALLIZATION_PROTOCOL files (with or without the temporal one),
\* "compression 2.1" returns the 2.1 file.
C14_Examples ==
  mres.done =>
    /\ (mq \in TemporalQueries /\ Contains(mfiles, TemporalCp)) =>
         /\ mres.match = TemporalCp
         /\ 10 * mres.score.sum >= 3 * 10 * mres.score.n
    /\ (mq = CompressionQuery /\ Contains(mfiles, Protocol20Txt)
          /\ Contains(mfiles, Protocol21Txt)) =>
         mres.match = Protocol21Txt

C14_Witness ==
  /\ mres.done
  /\ mq = CompressionQuery
  /\ mfiles = <<Protocol20Txt, Protocol21Txt>>
  /\ mres.match = Protocol21Txt
  /\ mres.score = [sum |-> 24, n |-> 2]

\* the tokens of a candidate: the words of its normalised file name
CandidateTokens(filename) == SplitWhitespace(NormalizeFilename(filename))

\* no token of the query contains or is contained in a token of a candidate
NoOverlap(query, availableFiles) ==
  LET queryWords == QueryWords(query)
  IN \A k \in 1..Len(queryWords) : \A i \in 1..Len(availableFiles) :
       LET tokens == CandidateTokens(availableFiles[i])
       IN \A j \in 1..Len(tokens) :
            /\ ~Includes(tokens[j], queryWords[k])
            /\ ~Includes(queryWords[k], tokens[j])

\* C15: no-match result. For a non-empty candidate list and a query none of
\* whose tokens contains or is contained in a candidate token, the match is
\* absent, the score is 0 and there is at least one suggestion.
C15_NoMatch ==
  (mres.done /\ mfiles # <<>> /\ NoOverlap(mq, mfiles)) =>
    /\ mres.match = None
    /\ mres.score.sum = 0
    /\ \A i \in 1..Len(mfiles) : mres.scored[i].score.sum = 0
    /\ Len(mres.suggestions) >= 1

C15_Witness ==
  /\ mres.done
  /\ Len(mfiles) >= 2
  /\ NoOverlap(mq, mfiles)
  /\ Len(QueryWords(mq)) >= 2
  /\ mres.match = None
  /\ Len(mres.suggestions) >= 2

\* C16: suggestions depend on the candidate list only. There are min(5,
\* number of candidates) of them, the i-th is derived from the i-th candidate
\* of the list as given, and they are the ones any other query gets, here
\* the empty query.
C16_Suggestions ==
  mres.done =>
    LET n == IF Len(mfiles) < 5 THEN Len(mfiles) ELSE 5
        other == IF mclass = "codex" THEN findBestCodexMatch(<<>>, mfiles).suggestions
                 ELSE findBestProtocolMatch(<<>>, mfiles).suggestions
    IN /\ Len(mres.suggestions) = n
       /\ \A i \in 1..n :
            mres.suggestions[i] = IF mclass = "codex" THEN CodexSuggestion(mfiles[i])
                                  ELSE ProtocolSuggestion(mfiles[i])
       /\ mres.suggestions = other

C16_Witness ==
  /\ mres.done
  /\ mclass = "spec"
  /\ Len(mfiles) = 6
  /\ Len(mres.suggestions) = 5
  /\ mres.match # None
  /\ mres.match # mfiles[1]

\* the words with those at places i and j exchanged
Swapped(words, i, j) ==
  [k \in 1..Len(words) |-> words[IF k = i THEN j ELSE IF k = j THEN i ELSE k]]

\* C17: flexible word order. Exchanging any two words of the query changes
\* neither the score of any candidate nor the match.
\* (Stated as the claim states it; the engine breaks it.)
C17_WordOrder ==
  mres.done =>
    LET words == QueryWords(mq)
    IN \A i, j \in 1..Len(words) :
         LET query == Join(Swapped(words, i, j), <<" ">>)
             r == IF mclass = "codex" THEN findBestCodexMatch(query, mfiles)
                  ELSE findBestProtocolMatch(query, mfiles)
             scored == ScoreFiles(QueryWords(query), mfiles, mclass)
         IN /\ r.match = mres.match
            /\ \A c \in 1..Len(mfiles) : scored[c].score = mres.scored[c].score

\* the result values a handler returns to the transport layer
ResultKinds ==
  {"exported", "export_error", "imported", "import_error", "not_found",
   "listing", "list_error", "document", "no_files", "no_match", "query_error"}

\* a step in which an invocation returns: a slot falls idle, or a call is
\* made and no slot is taken
Returned ==
  \/ \E p \in Slots : procs[p].pc # "idle" /\ procs'[p].pc = "idle"
  \/ /\ calls' # calls
     /\ \A p \in Slots : (procs'[p].pc = "idle") <=> (procs[p].pc = "idle")

\* C18: every invocation that returns, returns a result value. A missing
\* record gives the not-found result, an export with no content the
\* no-content error text, a record that does not parse or lacks content the
\* import error text (in a listing: an entry with the error marker, see C8);
\* no invocation ends in any other way.
C18_ErrorBoundary ==
  [][ Returned =>
        /\ last'.pc = "done"
        /\ last'.res.kind \in ResultKinds
        /\ (last'.op = "export_crystal" /\ NoContentGiven(last'.arg)) =>
             last'.res = [kind |-> "export_error", message |-> NoContentMessage]
        /\ last'.op = "import_crystal" =>
             LET crystal_id == last'.arg.crystal_id
                 r == ReadFile(ImportPath(crystal_id))
             IN IF \E p \in Slots : procs[p].pc = "enum" /\ procs'[p] # procs[p]
                THEN last'.res.kind = "not_found"
                ELSE /\ r.err = ""
                     /\ ~Parses(r.text) =>
                          /\ last'.res.kind = "import_error"
                          /\ last'.res.message = "JSON.parse"
                     /\ (Parses(r.text) /\ ~Truthy(JsonParse(r.text).content)) =>
                          /\ last'.res.kind = "import_error"
                          /\ last'.res.message = "Invalid crystal format: missing content field"
                     /\ (Parses(r.text) /\ Truthy(JsonParse(r.text).content)) =>
                          last'.res.kind = "imported"
        /\ last'.op = "list_crystals" => last'.res.kind \in {"listing", "list_error"} ]_vars

C18_Witness ==
  /\ last.op = "import_crystal"
  /\ last.res.kind = "import_error"
  /\ last.res.message = "JSON.parse"
  /\ \E i \in 1..Len(dir) : dir[i].name = CrystalFilename(last.arg.crystal_id)

\* the record of id in public/crystals is complete and holds content
HoldsRecord(id, content) ==
  LET r == ReadFile(JoinCrystalsDir(id \o DotCrystal))
  IN /\ r.err = ""
     /\ Parses(r.text)
     /\ JsonParse(r.text).id = id
     /\ JsonParse(r.text).content = content

\* C19: concurrent exports. An export_crystal call with explicit content
\* succeeds under every interleaving with another; the id it returns differs
\* from the id of every export that returned before it and of every export
\* still in flight; and every export that has returned keeps its own record
\* with its own content, whatever the others do.
C19_ConcurrentExports ==
  /\ [](\A e \in exported : HoldsRecord(e.id, e.content))
  /\ [][ (Returned /\ last'.op = "export_crystal"
                   /\ last'.arg.manual_content \notin {Undefined, None, <<>>}) =>
           /\ last'.res.kind = "exported"
           /\ \A e \in exported : e.id # last'.res.id
           /\ \A q \in Slots :
                (procs'[q].op = "export_crystal" /\ procs'[q].pc = "write") =>
                  procs'[q].loc.crystalId # last'.res.id
           /\ \E e \in exported' :
                e.id = last'.res.id /\ e.content = last'.arg.manual_content ]_vars

\* two exports that were in flight together (they took the same clock
\* reading) have both returned
C19_Witness ==
  \E e1, e2 \in exported :
    /\ e1.id # e2.id
    /\ e1.content # e2.content
    /\ HoldsRecord(e1.id, e1.content)
    /\ HoldsRecord(e2.id, e2.content)
    /\ JsonParse(ReadFile(JoinCrystalsDir(e1.id \o DotCrystal)).text).created_at
         = JsonParse(ReadFile(JoinCrystalsDir(e2.id \o DotCrystal)).text).created_at

\* C20: atomic write. An import_crystal or list_crystals that runs beside an
\* export_crystal sees no record of the new id or the complete record: an
\* import of a generated id returns the not-found text or the record, and no
\* entry of a listing carries the parse-error marker.
\* (Stated as the claim states it; writeFile opens and truncates the file
\* before it writes, and the readers run in between.)
C20_AtomicWrite ==
  /\ (last.op = "import_crystal" /\ last.arg.crystal_id = NanoId(0)) =>
       last.res.kind \in {"not_found", "imported"}
  /\ (last.op = "list_crystals" /\ last.res.kind = "listing") =>
       \A i \in 1..Len(last.res.crystals) : last.res.crystals[i].error = ""

\* the names of the fields of a record
RecordFields == {"id", "title", "spec_version", "created_at", "auto_detected", "content"}

\* C21: every record that export_crystal has written carries the six fields,
\* its id is the key it is stored under (the file name without .crystal), and
\* its content is not empty; an export_crystal call whose manual_content is
\* the empty string writes no record of its own at all.
C21_RecordShape ==
  /\ [](\A i \in 1..Len(dir) :
         (IsCrystalFile(dir[i].name) /\ dir[i].text # <<>>) =>
           /\ Parses(dir[i].text)
           /\ \A f \in RecordFields : Member(dir[i].text, f) # Undefined
           /\ {dir[i].text[k].k : k \in 2..(Len(dir[i].text) - 1)} = RecordFields
           /\ JsonParse(dir[i].text).id \o DotCrystal = dir[i].name
           /\ JsonParse(dir[i].text).content # <<>>
           /\ JsonParse(dir[i].text).content # Undefined)
  /\ [](\A p \in Slots :
         (procs[p].op = "export_crystal" /\ procs[p].arg.manual_content = <<>>) =>
           procs[p].pc # "write")
  /\ []((last.op = "export_crystal" /\ last.arg.manual_content = <<>>) =>
         /\ last.res.kind = "export_error"
         /\ last.loc.crystalId = Undefined)

C21_Witness ==
  /\ last.op = "export_crystal"
  /\ last.arg.manual_content = <<>>
  /\ last.res.kind = "export_error"
  /\ \E i \in 1..Len(dir) :
       /\ IsCrystalFile(dir[i].name)
       /\ Parses(dir[i].text)
       /\ JsonParse(dir[i].text).content = <<"Y", Backslash, DoubleQuote>>

\* the pairs (query token, candidate token), by position, in which one token
\* contains the other
ContainingPairs(queryWords, tokens) ==
  {<<k, j>> \in (1..Len(queryWords)) \X (1..Len(tokens)) :
     Includes(tokens[j], queryWords[k]) \/ Includes(queryWords[k], tokens[j])}

EqualPairs(queryWords, tokens) ==
  {<<k, j>> \in (1..Len(queryWords)) \X (1..Len(tokens)) : queryWords[k] = tokens[j]}

\* C22: term score. The score of a candidate is, in tenths, 10 for every pair
\* of equal tokens plus 7 for every other pair in which one token contains the
\* other, every pair counted, plus the version and the vocabulary
\* contributions, over the number of query tokens.
C22_TermScore ==
  mres.done =>
    LET queryWords == QueryWords(mq)
    IN \A i \in 1..Len(mfiles) :
         LET tokens == CandidateTokens(mfiles[i])
             equal == Cardinality(EqualPairs(queryWords, tokens))
             containing == Cardinality(ContainingPairs(queryWords, tokens))
             rest == VersionScore(queryWords, NormalizeFilename(mfiles[i]))
                     + (IF mclass = "codex"
                        THEN CodexTermScore(queryWords, NormalizeFilename(mfiles[i]))
                        ELSE 0)
         IN /\ mres.scored[i].score.n = Len(queryWords)
            /\ mres.scored[i].score.sum = 10 * equal + 7 * (containing - equal) + rest

\* one query token pairs with two tokens of one candidate
C22_Witness ==
  /\ mres.done
  /\ Len(QueryWords(mq)) >= 2
  /\ \E i \in 1..Len(mfiles) :
       LET pairs == ContainingPairs(QueryWords(mq), CandidateTokens(mfiles[i]))
       IN /\ \E a, b \in pairs : a[1] = b[1] /\ a[2] # b[2]
          /\ EqualPairs(QueryWords(mq), CandidateTokens(mfiles[i])) # {}

\* every number (digits, an optional ".", digits) found in the words, word by
\* word and left to right
RECURSIVE ExtractVersions(_)
ExtractVersions(words) ==
  IF words = <<>> THEN <<>>
  ELSE VersionMatchAll(Head(words), 1) \o ExtractVersions(Tail(words))

\* C23: version score. The version contribution of a candidate is 0.8 for
\* every pair of equal numbers, one extracted from a query token (from every
\* token that holds one, and from each of several) and one extracted from
\* the normalized candidate name.
\* (Stated as the claim states it; the engine compares whole query words,
\* and not all of them.)
C23_VersionScore ==
  mres.done =>
    LET queryWords == QueryWords(mq)
        qv == ExtractVersions(queryWords)
    IN \A i \in 1..Len(mfiles) :
         LET filename == NormalizeFilename(mfiles[i])
             cv == VersionMatchAll(filename, 1)
             pairs == {<<a, b>> \in (1..Len(qv)) \X (1..Len(cv)) : qv[a] = cv[b]}
         IN mres.scored[i].score.sum
              = WordScore(queryWords, SplitWhitespace(filename))
                + 8 * Cardinality(pairs)
                + (IF mclass = "codex" THEN CodexTermScore(queryWords, filename) ELSE 0)

\* C24: one normalization. The tokens of the query are those the
\* normalization of a candidate name gives (lower case, separators to spaces,
\* split on whitespace), so a query written with separators gets, for every
\* candidate, the score of the same query written with spaces, and the same
\* match.
\* (Stated as the claim states it; the engine leaves the separators of a
\* query in place.)
C24_SameNormalization ==
  mres.done =>
    LET spaced == ReplaceClass(mq, Separators)
        r == IF mclass = "codex" THEN findBestCodexMatch(spaced, mfiles)
             ELSE findBestProtocolMatch(spaced, mfiles)
        scored == ScoreFiles(QueryWords(spaced), mfiles, mclass)
    IN /\ QueryWords(mq) = CandidateTokens(Trim(mq))
       /\ r.match = mres.match
       /\ \A i \in 1..Len(mfiles) : ScoreEq(scored[i].score, mres.scored[i].score)

\* the vocabulary terms that are a query token and occur in the normalized
\* candidate name
MatchedTerms(queryWords, filename) ==
  {t \in {codexTerms[k] : k \in 1..Len(codexTerms)} :
     /\ Contains(queryWords, t)
     /\ Includes(NormalizeFilename(filename), t)}

\* C25: the classes differ by the vocabulary bonus only. For every query and
\* candidate the codex score is the spec score plus 0.5 for each of the seven
\* terms that is a query token and occurs in the normalized name, over the
\* same number of query tokens; the spec score has no such part.
C25_VocabularyBonus ==
  mres.done =>
    LET queryWords == QueryWords(mq)
    IN /\ Len(codexTerms) = 7
       /\ \A i \in 1..Len(mfiles) :
            LET k == Cardinality(MatchedTerms(queryWords, mfiles[i]))
                spec == calculateProtocolMatchScore(queryWords, NormalizeFilename(mfiles[i]))
                codex == calculateCodexMatchScore(queryWords, NormalizeFilename(mfiles[i]))
            IN /\ codex.n = spec.n
               /\ codex.sum = spec.sum + 5 * k
               /\ spec.sum = WordScore(queryWords, CandidateTokens(mfiles[i]))
                               + VersionScore(queryWords, NormalizeFilename(mfiles[i]))
               /\ mres.scored[i].score = IF mclass = "codex" THEN codex ELSE spec

C25_Witness ==
  /\ mres.done
  /\ mclass = "codex"
  /\ \E i \in 1..Len(mfiles) :
       /\ Cardinality(MatchedTerms(QueryWords(mq), mfiles[i])) = 2
       /\ mres.match = mfiles[i]

\* C26: creation of public/crystals. When the directory is there, the mkdir
\* step of export_crystal is no error and changes nothing; when mkdir fails
\* in any other way, the export returns an error and writes no record.
\* (Stated as the claim states it; the handler ignores every failure of
\* mkdir.)
C26_MkdirFailure ==
  /\ [][ (dirExists /\ \E p \in Slots : procs[p].pc = "idle" /\ procs'[p].pc = "open") =>
           (dirExists' /\ dir' = dir) ]_vars
  /\ [](\A p \in Slots :
         (procs[p].op = "export_crystal" /\ procs[p].loc.mkdirError) =>
           procs[p].pc # "write")
  /\ []((last.op = "export_crystal" /\ last.loc.mkdirError) =>
         last.res.kind = "export_error")

\* a step of an export_crystal invocation
ExportStep ==
  \/ nextId' # nextId
  \/ \E p \in Slots : procs[p].op = "export_crystal" /\ procs'[p] # procs[p]
  \/ \E p \in Slots : procs[p].pc = "idle" /\ procs'[p].op = "export_crystal"
  \/ calls' # calls /\ last' # last /\ last'.op = "export_crystal"

\* the listing list_crystals gives of the directory as it is, read in one go
ListingOf(entries) ==
  LET files == FilterCrystal(NamesOf(entries))
  IN [i \in 1..Len(files) |-> ListEntry(files[i], ReadFile(JoinCrystalsDir(files[i])))]

\* C27: the readers are read-only. A step of list_crystals, import_crystal,
\* import_crystal_spec or import_codex, whether it leads to a result or to an
\* error text, leaves public/crystals and every file in it as they are; so a
\* listing that no export step ran beside returns the directory as it is,
\* whichever readers ran beside it.
C27_ReadOnly ==
  [][ ~ExportStep =>
        /\ dir' = dir
        /\ dirExists' = dirExists
        /\ nextId' = nextId
        /\ (Returned /\ last'.op = "list_crystals" /\ last'.clean
               /\ last'.res.kind = "listing") =>
             last'.res.crystals = ListingOf(dir) ]_vars

\* a listing has returned while an import_crystal was in flight
C27_Witness ==
  /\ last.op = "list_crystals"
  /\ last.clean
  /\ Len(last.res.crystals) >= 1
  /\ \E p \in Slots : procs[p].op = "import_crystal" /\ procs[p].pc = "enum"

\* C28: list/get consistency. When a listing returns that ran with every
\* export completed (none in flight, none beside it), each id it reports is
\* an id that an export returned, and import_crystal of that id at that
\* moment succeeds with the title, spec_version and created_at of the entry.
C28_ListGet ==
  [][ (Returned /\ last'.op = "list_crystals" /\ last'.res.kind = "listing"
                /\ last'.clean
                /\ \A p \in Slots : procs[p].op # "export_crystal"
                                     /\ procs'[p].op # "export_crystal") =>
        /\ Len(last'.res.crystals) = Cardinality(exported)
        /\ \A i \in 1..Len(last'.res.crystals) :
             LET entry == last'.res.crystals[i]
                 got == ImportResult(entry.id, ReadFile(ImportPath(entry.id)).text)
             IN /\ entry.error = ""
                /\ \E e \in exported : e.id = entry.id
                /\ got.kind = "imported"
                /\ got.title = entry.title
                /\ got.spec_version = entry.spec_version
                /\ got.created_at = entry.created_at ]_vars

C28_Witness ==
  /\ last.op = "list_crystals"
  /\ last.clean
  /\ Len(last.res.crystals) = 2
  /\ Cardinality(exported) = 2
  /\ \A p \in Slots : procs[p].op = "idle"
  /\ \A i \in 1..2 : last.res.crystals[i].error = ""
  /\ last.res.crystals[1].title # last.res.crystals[2].title

\* C29: the empty candidate token. A candidate whose file name begins with a
\* separator has the empty token among its tokens; every query token
\* contains it, so for every query that is not blank the candidate scores at
\* least 0.7, which meets the threshold, and the call returns a match, also
\* when no query token shares anything with a proper token of the name.
C29_EmptyToken ==
  (mres.done /\ Trim(mq) # <<>>) =>
    \A i \in 1..Len(mfiles) :
      (mfiles[i] # <<>> /\ mfiles[i][1] \in Separators) =>
        /\ Contains(CandidateTokens(mfiles[i]), <<>>)
        /\ \A k \in 1..Len(QueryWords(mq)) : Includes(QueryWords(mq)[k], <<>>)
        /\ mres.scored[i].score.sum >= 7 * mres.scored[i].score.n
        /\ MeetsThreshold(mres.scored[i].score)
        /\ mres.match # None

\* the query shares nothing with the proper tokens of the only candidate,
\* and the candidate is returned
C29_Witness ==
  /\ mres.done
  /\ mq = <<"z","z","z">>
  /\ mfiles = <<DraftCp>>
  /\ mres.match = DraftCp
  /\ mres.score = [sum |-> 7, n |-> 1]

\* C30: before the first export. While public/crystals does not exist,
\* list_crystals returns the listing error and import_crystal the not-found
\* text with the listing error in place of the ids. Every export_crystal
\* call, also one that fails for lack of content, leaves the directory in
\* place, and from then on list_crystals returns a listing: the empty one
\* when the directory holds no record.
C30_BeforeFirstExport ==
  [][ /\ (Returned /\ last'.op = "list_crystals" /\ calls' # calls) =>
           IF ~dirExists
           THEN last'.res = [kind |-> "list_error", crystals |-> <<>>]
           ELSE /\ last'.res.kind = "listing"
                /\ last'.res.crystals = <<>>
                /\ FilterCrystal(NamesOf(dir)) = <<>>
      /\ (Returned /\ last'.op = "list_crystals" /\ calls' = calls) =>
           /\ dirExists
           /\ last'.res.kind = "listing"
      /\ (Returned /\ last'.op = "import_crystal" /\ calls' = calls /\ ~dirExists) =>
           /\ last'.res.kind = "not_found"
           /\ last'.res.listError
           /\ last'.res.available = <<>>
      /\ (Returned /\ last'.op = "export_crystal") => dirExists'
      /\ dirExists => dirExists' ]_vars

\* the directory was not there, an export failed for lack of content, and a
\* listing has returned the empty listing
C30_Witness ==
  /\ dirExists
  /\ dir = <<>>
  /\ exported = {}
  /\ last.op = "list_crystals"
  /\ last.res = [kind |-> "listing", crystals |-> <<>>]

====
